---- MODULE Spec2Model ----
(***************************************************************************)
(* Library management service: the relational store (users, books,        *)
(* borrows), the repositories that issue single SQL statements against it, *)
(* and the LibraryService facade that validates requests and calls them.   *)
(* A request is served by a handler process; the statements of BorrowBook  *)
(* and ReturnBook are separate steps, so handlers interleave between       *)
(* statements exactly as they do on the shared connection pool. The client *)
(* program that calls the service in a fixed order is a process of its own.*)
(***************************************************************************)
EXTENDS Integers, Sequences, FiniteSets, TLC

-----------------------------------------------------------------------------
(* Bounds of the model *)

\* concurrent request handlers
NumProcs == 2
\* rows the users table can hold
MaxUsers == 2
\* rows the books table can hold
MaxBooks == 2
\* rows the borrows table can hold
MaxBorrows == 2
\* last instant of the clock
MaxTime == 1
\* distinct salts bcrypt can draw
NumSalts == 1
\* clock ticks per second: the clock is finer than the second
TicksPerSecond == 2

-----------------------------------------------------------------------------
(* Program constants *)

\* time.Now().AddDate(0, 0, 14)
LoanDays == 14
\* len(req.Password) < 8
MinPasswordLen == 8
\* bcrypt.GenerateFromPassword rejects passwords longer than 72 bytes
BcryptMaxLen == 72
\* seconds of a day
SecondsPerDay == 86400
\* a NULL return_date
NULL == -1
\* the empty string used as an identifier
EmptyId == 0

\* clock ticks of a day
TicksPerDay == SecondsPerDay * TicksPerSecond

Procs == 1..NumProcs
UserIds == 1..MaxUsers
BookIds == 1..MaxBooks
BorrowIds == 1..MaxBorrows
Salts == 1..NumSalts
Times == 0..MaxTime

-----------------------------------------------------------------------------
(* gRPC status codes and error texts *)

OK == "OK"
InvalidArgument == "InvalidArgument"
Unauthenticated == "Unauthenticated"
NotFound == "NotFound"
Internal == "Internal"

\* pgx.ErrNoRows
ErrNoRows == "no rows in result set"
\* any other failure of a statement (connection lost, context cancelled, ...)
ErrDb == "db failure"
\* violation of a UNIQUE constraint
ErrUnique == "duplicate key value violates unique constraint"
\* violation of a REFERENCES constraint
ErrForeignKey == "violates foreign key constraint"
\* bcrypt.ErrPasswordTooLong
ErrPasswordTooLong == "password length exceeds 72 bytes"
\* no error
Nil == <<>>

-----------------------------------------------------------------------------
(* Request inputs *)

Letters ==
  {"a","b","c","d","e","f","g","h","i","j","k","l","m","n","o","p","q","r","s",
   "t","u","v","w","x","y","z","A","B","C","D","E","F","G","H","I","J","K","L",
   "M","N","O","P","Q","R","S","T","U","V","W","X","Y","Z"}
Digits == {"0","1","2","3","4","5","6","7","8","9"}

\* [a-zA-Z0-9._%+\-]
LocalChars == Letters \cup Digits \cup {".", "_", "%", "+", "-"}
\* [a-zA-Z0-9.\-]
DomainChars == Letters \cup Digits \cup {".", "-"}

\* ^[a-zA-Z0-9._%+\-]+@[a-zA-Z0-9.\-]+\.[a-zA-Z]{2,}$ on a string given as
\* the sequence of its characters
EmailRegexMatch(e) ==
  \E i \in 1..Len(e), j \in 1..Len(e) :
    /\ e[i] = "@"
    /\ i > 1
    /\ \A k \in 1..(i - 1) : e[k] \in LocalChars
    /\ j > i + 1
    /\ e[j] = "."
    /\ \A k \in (i + 1)..(j - 1) : e[k] \in DomainChars
    /\ Len(e) - j >= 2
    /\ \A k \in (j + 1)..Len(e) : e[k] \in Letters

EmailAnn == <<"a","n","n","@","x",".","c","o","m">>
EmailBob == <<"b","o","b","@","y",".","o","r","g">>
EmailNoAt == <<"a","n","n",".","c","o","m">>
EmailShortTld == <<"a","n","n","@","x",".","c">>
EmailEmpty == <<>>

Names == {"", "Ann"}
Emails == {EmailEmpty, EmailNoAt, EmailShortTld, EmailAnn, EmailBob}
LongPassword ==
  "aaaaaaaaaaaaaaaaaaaaaaaaaaaaaaaaaaaaaaaaaaaaaaaaaaaaaaaaaaaaaaaaaaaaaaaaa"
Passwords == {"", "pass123", "password123", "password124", LongPassword}

Titles == {"", "Foo", "Goo"}
Authors == {"", "Bar"}
Isbns == {"", "111"}
\* a nil *pb.Book
NilBook == [nil |-> TRUE]
BookInputs ==
  {NilBook} \cup [title : Titles, author : Authors, isbn : Isbns, available : BOOLEAN]

-----------------------------------------------------------------------------
(* State *)

VARIABLES
  users,    \* table users: id -> [name, email, password_hash]
  books,    \* table books: id -> [title, author, isbn, available]
  borrows,  \* table borrows: id -> [user_id, book_id, due_date, return_date, raced]
  now,      \* the clock read by time.Now() and NOW()
  pc,       \* per handler: the statement it issues next
  loc,      \* per handler: the local variables of its BorrowBook / ReturnBook
  last,     \* the request served last and its response
  client    \* the client program: its position and its local variables

vars == <<users, books, borrows, now, pc, loc, last, client>>

IdleLoc ==
  [op |-> "none", user_id |-> EmptyId, book_id |-> EmptyId, borrow_id |-> EmptyId,
   due_date |-> 0, raced |-> FALSE, err |-> Nil, stmts |-> 0]

NoResponse ==
  [op |-> "none", req |-> [none |-> TRUE], code |-> OK, msg |-> Nil,
   val |-> [none |-> TRUE], calls |-> 0, stmts |-> 0, http |-> 0]

\* the client before its first call
ClientStart ==
  [pc |-> "register", userID |-> EmptyId, bookID |-> EmptyId, borrowID |-> EmptyId,
   borrowedAt |-> 0, seen |-> <<>>]

Init ==
  /\ users = <<>>
  /\ books = <<>>
  /\ borrows = <<>>
  /\ now = 0
  /\ pc = [p \in Procs |-> "idle"]
  /\ loc = [p \in Procs |-> IdleLoc]
  /\ last = NoResponse
  /\ client = ClientStart

\* gen_random_uuid(): a fresh identifier; identifiers are opaque, so rows are
\* numbered in the order of their creation
NewId(table) == Cardinality(DOMAIN table) + 1

\* a row added to a table
Insert(table, id, row) == [k \in DOMAIN table \cup {id} |-> IF k = id THEN row ELSE table[k]]

\* HTTP status codes of net/http
StatusOK == 200
StatusCreated == 201
StatusBadRequest == 400
StatusUnauthorized == 401
StatusNotFound == 404
StatusInternalServerError == 500

\* the status the REST route of an operation answers with, given the code the
\* operation returned: each handler of RESTServer has its own translation
RestStatus(op, code) ==
  CASE op = "RegisterUser" ->
         IF code # OK THEN StatusInternalServerError ELSE StatusCreated
    [] op = "LoginUser" ->
         IF code # OK THEN StatusUnauthorized ELSE StatusOK
    [] op = "CreateBook" ->
         IF code # OK THEN StatusInternalServerError ELSE StatusCreated
    [] op = "GetBook" ->
         IF code # OK THEN StatusNotFound ELSE StatusOK
    [] op = "ListBooks" ->
         IF code # OK THEN StatusInternalServerError ELSE StatusOK
    [] op = "BorrowBook" ->
         IF code # OK THEN StatusInternalServerError ELSE StatusOK
    [] op = "ReturnBook" ->
         IF code # OK THEN StatusInternalServerError ELSE StatusOK
    [] op = "CheckBookAvailability" ->
         IF code = OK THEN StatusOK
         ELSE IF code = NotFound THEN StatusNotFound
         ELSE StatusInternalServerError

\* the response of a facade operation: the status code and message of its
\* error (OK and no message for nil), its value, the calls it made to the
\* store and the statements they issued, and the status its REST route
\* answers with
Response(op, req, code, msg, val, calls, stmts) ==
  [op |-> op, req |-> req, code |-> code, msg |-> msg, val |-> val,
   calls |-> calls, stmts |-> stmts, http |-> RestStatus(op, code)]

NoVal == [none |-> TRUE]

-----------------------------------------------------------------------------
(* Credential store: UserRepository *)

\* bcrypt in symbolic form: the digest of a password under a salt. The hash
\* carries its salt, as the encoded bcrypt hash does.
BcryptHash(password, salt) == [salt |-> salt, digest |-> <<salt, password>>]

\* GenerateFromPassword that hands back the password's own text as the hash
GenerateFromPasswordPlain(password, salt) ==
  IF Len(password) > BcryptMaxLen
    THEN [hash |-> NoVal, err |-> <<ErrPasswordTooLong>>]
    ELSE [hash |-> [salt |-> salt, digest |-> password], err |-> Nil]

\* bcrypt.GenerateFromPassword(password, DefaultCost) with the salt it drew
GenerateFromPassword(password, salt) ==
  IF Len(password) > BcryptMaxLen
    THEN [hash |-> NoVal, err |-> <<ErrPasswordTooLong>>]
    ELSE [hash |-> BcryptHash(password, salt), err |-> Nil]

\* CompareHashAndPassword that compares the stored digest with the password
CompareDigestWithPassword(hash, password) == hash.digest = password

\* bcrypt.CompareHashAndPassword: hashes the password under the salt of the
\* stored hash and compares
CompareHashAndPassword(hash, password) == BcryptHash(password, hash.salt) = hash

\* the row INSERT INTO users (name, email, password_hash) stores
UserRow(name, email, hash) == [name |-> name, email |-> email, password_hash |-> hash]

\* the pb.User scanned from a row: id, name, email
PbUser(tbl, id) == [id |-> id, name |-> tbl[id].name, email |-> tbl[id].email]

\* Create on a users table whose email column is not UNIQUE
UserCreateAnyEmail(tbl, name, email, password, salt, dbfail) ==
  LET h == GenerateFromPassword(password, salt) IN
  IF h.err # Nil
    THEN [users |-> tbl, user |-> NoVal, err |-> <<"failed to hash password">> \o h.err,
          stmts |-> 0]
  ELSE IF dbfail
    THEN [users |-> tbl, user |-> NoVal, err |-> <<"failed to create user", ErrDb>>,
          stmts |-> 1]
  ELSE LET id == NewId(tbl)
           t2 == Insert(tbl, id, UserRow(name, email, h.hash))
       IN [users |-> t2, user |-> PbUser(t2, id), err |-> Nil, stmts |-> 1]

\* UserRepository.Create on table tbl
UserCreate(tbl, name, email, password, salt, dbfail) ==
  LET h == GenerateFromPassword(password, salt) IN
  IF h.err # Nil
    THEN [users |-> tbl, user |-> NoVal, err |-> <<"failed to hash password">> \o h.err,
          stmts |-> 0]
  ELSE IF dbfail
    THEN [users |-> tbl, user |-> NoVal, err |-> <<"failed to create user", ErrDb>>,
          stmts |-> 1]
  ELSE IF \E u \in DOMAIN tbl : tbl[u].email = email
    THEN [users |-> tbl, user |-> NoVal, err |-> <<"failed to create user", ErrUnique>>,
          stmts |-> 1]
  ELSE LET id == NewId(tbl)
           t2 == Insert(tbl, id, UserRow(name, email, h.hash))
       IN [users |-> t2, user |-> PbUser(t2, id), err |-> Nil, stmts |-> 1]

\* VerifyCredentials that tells a missing row from a wrong password
VerifyCredentialsNoSuchUser(tbl, email, password, dbfail) ==
  IF dbfail
    THEN [user |-> NoVal, err |-> <<"database error", ErrDb>>]
  ELSE IF ~ \E u \in DOMAIN tbl : tbl[u].email = email
    THEN [user |-> NoVal, err |-> <<"user not found">>]
  ELSE LET id == CHOOSE u \in DOMAIN tbl : tbl[u].email = email IN
       IF ~ CompareHashAndPassword(tbl[id].password_hash, password)
         THEN [user |-> NoVal, err |-> <<"invalid credentials">>]
         ELSE [user |-> PbUser(tbl, id), err |-> Nil]

\* UserRepository.VerifyCredentials on table tbl
VerifyCredentials(tbl, email, password, dbfail) ==
  IF dbfail
    THEN [user |-> NoVal, err |-> <<"database error", ErrDb>>]
  ELSE IF ~ \E u \in DOMAIN tbl : tbl[u].email = email
    THEN [user |-> NoVal, err |-> <<"invalid credentials">>]
  ELSE LET id == CHOOSE u \in DOMAIN tbl : tbl[u].email = email IN
       IF ~ CompareHashAndPassword(tbl[id].password_hash, password)
         THEN [user |-> NoVal, err |-> <<"invalid credentials">>]
         ELSE [user |-> PbUser(tbl, id), err |-> Nil]

\* UserRepository.GetByID on table tbl
UserGetByID(tbl, id, dbfail) ==
  IF dbfail
    THEN [user |-> NoVal, err |-> <<"database error", ErrDb>>]
  ELSE IF id \notin DOMAIN tbl
    THEN [user |-> NoVal, err |-> <<"user not found">>]
  ELSE [user |-> PbUser(tbl, id), err |-> Nil]

\* a call of UserRepository.GetByID: no facade operation and no route makes
\* it, so what it returns is recorded as the store returns it, a user or a
\* plain error
GetUserByID(p, id, dbfail) ==
  /\ pc[p] = "idle"
  /\ LET r == UserGetByID(users, id, dbfail) IN
     last' = [op |-> "UserRepository.GetByID", req |-> [id |-> id],
              code |-> IF r.err = Nil THEN OK ELSE "error", msg |-> r.err,
              val |-> IF r.err = Nil THEN [user |-> r.user] ELSE NoVal,
              calls |-> 1, stmts |-> 1, http |-> 0]
  /\ UNCHANGED <<users, books, borrows, now, pc, loc>>

-----------------------------------------------------------------------------
(* Facade: user operations *)

\* ValidateRegisterUser without the check of the password's length
ValidateRegisterUserAnyLength(name, email, password) ==
  IF name = "" \/ email = EmailEmpty \/ password = ""
    THEN <<"name, email, and password are required">>
  ELSE IF ~ EmailRegexMatch(email)
    THEN <<"invalid email format">>
  ELSE Nil

\* the checks of LibraryService.RegisterUser: Nil, or the message of the
\* InvalidArgument status
ValidateRegisterUser(name, email, password) ==
  IF name = "" \/ email = EmailEmpty \/ password = ""
    THEN <<"name, email, and password are required">>
  ELSE IF ~ EmailRegexMatch(email)
    THEN <<"invalid email format">>
  ELSE IF Len(password) < MinPasswordLen
    THEN <<"password must be at least 8 characters">>
  ELSE Nil

\* LibraryService.RegisterUser
RegisterUser(p, name, email, password, salt, dbfail) ==
  /\ pc[p] = "idle"
  /\ LET req == [name |-> name, email |-> email, password |-> password]
         v == ValidateRegisterUser(name, email, password)
     IN IF v # Nil
          THEN /\ last' = Response("RegisterUser", req, InvalidArgument, v, NoVal, 0, 0)
               /\ users' = users
          ELSE LET r == UserCreate(users, name, email, password, salt, dbfail) IN
               /\ Cardinality(DOMAIN r.users) <= MaxUsers
               /\ users' = r.users
               /\ last' = IF r.err # Nil
                            THEN Response("RegisterUser", req, Internal,
                                          <<"failed to create user">> \o r.err,
                                          NoVal, 1, r.stmts)
                            ELSE Response("RegisterUser", req, OK, Nil,
                                          [user |-> r.user], 1, r.stmts)
  /\ UNCHANGED <<books, borrows, now, pc, loc>>

\* LibraryService.LoginUser
LoginUser(p, email, password, dbfail) ==
  /\ pc[p] = "idle"
  /\ LET req == [email |-> email, password |-> password] IN
     IF email = EmailEmpty \/ password = ""
       THEN last' = Response("LoginUser", req, InvalidArgument,
                             <<"email and password are required">>, NoVal, 0, 0)
       ELSE LET r == VerifyCredentials(users, email, password, dbfail) IN
            last' = IF r.err # Nil
                      THEN Response("LoginUser", req, Unauthenticated,
                                    <<"invalid credentials">>, NoVal, 1, 1)
                      ELSE Response("LoginUser", req, OK, Nil,
                                    [user |-> r.user, token |-> "sample-jwt-token"], 1, 1)
  /\ UNCHANGED <<users, books, borrows, now, pc, loc>>

-----------------------------------------------------------------------------
(* Catalog store: BookRepository.Create, GetByID *)

\* the pb.Book scanned from a row
PbBook(tbl, id) ==
  [id |-> id, title |-> tbl[id].title, author |-> tbl[id].author,
   isbn |-> tbl[id].isbn, available |-> tbl[id].available]

\* the row INSERT INTO books (title, author, isbn, available) stores
BookRow(book) ==
  [title |-> book.title, author |-> book.author, isbn |-> book.isbn,
   available |-> book.available]

\* Create that overwrites the row of a book whose ISBN is already stored
BookCreateUpsert(tbl, book, dbfail) ==
  IF dbfail
    THEN [books |-> tbl, book |-> NoVal, err |-> <<"failed to create book", ErrDb>>]
  ELSE IF \E b \in DOMAIN tbl : tbl[b].isbn = book.isbn
    THEN LET id == CHOOSE b \in DOMAIN tbl : tbl[b].isbn = book.isbn
             t2 == [tbl EXCEPT ![id] = BookRow(book)]
         IN [books |-> t2, book |-> PbBook(t2, id), err |-> Nil]
  ELSE LET id == NewId(tbl)
           t2 == Insert(tbl, id, BookRow(book))
       IN [books |-> t2, book |-> PbBook(t2, id), err |-> Nil]

\* BookRepository.Create on table tbl
BookCreate(tbl, book, dbfail) ==
  IF dbfail
    THEN [books |-> tbl, book |-> NoVal, err |-> <<"failed to create book", ErrDb>>]
  ELSE IF \E b \in DOMAIN tbl : tbl[b].isbn = book.isbn
    THEN [books |-> tbl, book |-> NoVal, err |-> <<"failed to create book", ErrUnique>>]
  ELSE LET id == NewId(tbl)
           t2 == Insert(tbl, id, BookRow(book))
       IN [books |-> t2, book |-> PbBook(t2, id), err |-> Nil]

\* GetByID that leaves the availability it scans at true
BookGetByIDFlagUnread(tbl, id, dbfail) ==
  IF dbfail
    THEN [book |-> NoVal, err |-> <<"database error", ErrDb>>]
  ELSE IF id \notin DOMAIN tbl
    THEN [book |-> NoVal, err |-> <<"book not found">>]
  ELSE [book |-> [PbBook(tbl, id) EXCEPT !.available = TRUE], err |-> Nil]

\* BookRepository.GetByID on table tbl
BookGetByID(tbl, id, dbfail) ==
  IF dbfail
    THEN [book |-> NoVal, err |-> <<"database error", ErrDb>>]
  ELSE IF id \notin DOMAIN tbl
    THEN [book |-> NoVal, err |-> <<"book not found">>]
  ELSE [book |-> PbBook(tbl, id), err |-> Nil]

\* LibraryService.CreateBook
CreateBook(p, book, dbfail) ==
  /\ pc[p] = "idle"
  /\ LET req == [book |-> book] IN
     IF book = NilBook
       THEN /\ last' = Response("CreateBook", req, InvalidArgument,
                                <<"book is required">>, NoVal, 0, 0)
            /\ books' = books
     ELSE IF book.title = "" \/ book.author = ""
       THEN /\ last' = Response("CreateBook", req, InvalidArgument,
                                <<"title and author are required">>, NoVal, 0, 0)
            /\ books' = books
     ELSE LET r == BookCreate(books, book, dbfail) IN
          /\ Cardinality(DOMAIN r.books) <= MaxBooks
          /\ books' = r.books
          /\ last' = IF r.err # Nil
                       THEN Response("CreateBook", req, Internal,
                                     <<"failed to create book">> \o r.err, NoVal, 1, 1)
                       ELSE Response("CreateBook", req, OK, Nil, [book |-> r.book], 1, 1)
  /\ UNCHANGED <<users, borrows, now, pc, loc>>

\* GetBook that asks the store without looking at the ID first
GetBookUnchecked(p, id, dbfail) ==
  /\ pc[p] = "idle"
  /\ LET req == [id |-> id]
         r == BookGetByID(books, id, dbfail)
     IN last' = IF r.err # Nil
                  THEN Response("GetBook", req, NotFound,
                                <<"book not found">> \o r.err, NoVal, 1, 1)
                  ELSE Response("GetBook", req, OK, Nil, [book |-> r.book], 1, 1)
  /\ UNCHANGED <<users, books, borrows, now, pc, loc>>

\* LibraryService.GetBook
GetBook(p, id, dbfail) ==
  /\ pc[p] = "idle"
  /\ LET req == [id |-> id] IN
     IF id = EmptyId
       THEN last' = Response("GetBook", req, InvalidArgument,
                             <<"book id is required">>, NoVal, 0, 0)
       ELSE LET r == BookGetByID(books, id, dbfail) IN
            last' = IF r.err # Nil
                      THEN Response("GetBook", req, NotFound,
                                    <<"book not found">> \o r.err, NoVal, 1, 1)
                      ELSE Response("GetBook", req, OK, Nil, [book |-> r.book], 1, 1)
  /\ UNCHANGED <<users, books, borrows, now, pc, loc>>

\* LibraryService.CheckBookAvailability
CheckBookAvailability(p, book_id, dbfail) ==
  /\ pc[p] = "idle"
  /\ LET req == [book_id |-> book_id] IN
     IF book_id = EmptyId
       THEN last' = Response("CheckBookAvailability", req, InvalidArgument,
                             <<"book id is required">>, NoVal, 0, 0)
       ELSE LET r == BookGetByID(books, book_id, dbfail) IN
            last' = IF r.err # Nil
                      THEN Response("CheckBookAvailability", req, NotFound,
                                    <<"book not found">> \o r.err, NoVal, 1, 1)
                      ELSE Response("CheckBookAvailability", req, OK, Nil,
                                    [available |-> r.book.available,
                                     status |-> IF r.book.available THEN "Available"
                                                ELSE "Borrowed"],
                                    1, 1)
  /\ UNCHANGED <<users, books, borrows, now, pc, loc>>

\* the titles of the requests in the order of the store's collation
TitlesInOrder == <<"", "Foo", "Goo">>

\* the place of a title in that order
TitleRank(title) == CHOOSE i \in 1..Len(TitlesInOrder) : TitlesInOrder[i] = title

\* ORDER BY title: the orders the store may deliver the rows of tbl in; rows
\* of equal title come in either order
RowsByTitle(tbl) ==
  {q \in [1..Cardinality(DOMAIN tbl) -> DOMAIN tbl] :
     /\ \A i, j \in DOMAIN q : i # j => q[i] # q[j]
     /\ \A i, j \in DOMAIN q :
          i < j => TitleRank(tbl[q[i]].title) <= TitleRank(tbl[q[j]].title)}

\* LimitOffset without the limit: every row after the offset
LimitOffsetUnlimited(q, limit, offset) ==
  [i \in 1..(IF Len(q) - offset < 0 THEN 0 ELSE Len(q) - offset) |-> q[offset + i]]

\* rows offset+1 .. offset+limit of a result
LimitOffset(q, limit, offset) ==
  [i \in 1..(IF Len(q) - offset < limit THEN
               (IF Len(q) - offset < 0 THEN 0 ELSE Len(q) - offset)
             ELSE limit) |-> q[offset + i]]

\* BookRepository.List on table tbl, the store delivering the rows in order q
BookList(tbl, limit, offset, q, dbfail) ==
  IF dbfail
    THEN [books |-> <<>>, err |-> <<"failed to list books", ErrDb>>]
    ELSE [books |-> [i \in DOMAIN LimitOffset(q, limit, offset) |->
                       PbBook(tbl, LimitOffset(q, limit, offset)[i])],
          err |-> Nil]

\* the page size LibraryService.ListBooks uses when the request has none
DefaultPageSize == 10

\* LibraryService.ListBooks
ListBooks(p, page_size, page_token, dbfail) ==
  /\ pc[p] = "idle"
  /\ LET req == [page_size |-> page_size, page_token |-> page_token]
         pageSize == IF page_size > 0 THEN page_size ELSE DefaultPageSize
     IN \E q \in RowsByTitle(books) :
          LET r == BookList(books, pageSize, 0, q, dbfail) IN
          last' = IF r.err # Nil
                    THEN Response("ListBooks", req, Internal,
                                  <<"failed to list books">> \o r.err, NoVal, 1, 1)
                    ELSE Response("ListBooks", req, OK, Nil, [books |-> r.books], 1, 1)
  /\ UNCHANGED <<users, books, borrows, now, pc, loc>>

-----------------------------------------------------------------------------
(* Borrow ledger: BookRepository.BorrowBook and ReturnBook, one step per    *)
(* SQL statement                                                            *)

\* Format that rounds the instant up to the next whole second
FormatRFC3339RoundedUp(t) == [seconds |-> (t + TicksPerSecond - 1) \div TicksPerSecond]

\* dueDate.Format(time.RFC3339): the text of an instant, which has whole
\* seconds and no fraction
FormatRFC3339(t) == [seconds |-> t \div TicksPerSecond]

\* AddDate with the count taken for months of thirty days
AddDateMonths(t, days) == t + 30 * days * TicksPerDay

\* time.Now().AddDate(0, 0, days)
AddDate(t, days) == t + days * TicksPerDay

\* SetAvailable that writes false whatever value it is given
SetUnavailable(tbl, id, v) ==
  IF id \in DOMAIN tbl THEN [tbl EXCEPT ![id].available = FALSE] ELSE tbl

\* UPDATE books SET available = v WHERE id = id (no row: nothing is updated)
SetAvailable(tbl, id, v) ==
  IF id \in DOMAIN tbl THEN [tbl EXCEPT ![id].available = v] ELSE tbl

\* SelectAvailable that reports a stored book as available whatever its flag
SelectAvailableAnyFlag(tbl, book_id, dbfail) ==
  IF dbfail THEN [available |-> FALSE, err |-> <<ErrDb>>]
  ELSE IF book_id \notin DOMAIN tbl THEN [available |-> FALSE, err |-> <<ErrNoRows>>]
  ELSE [available |-> TRUE, err |-> Nil]

\* SELECT available FROM books WHERE id = bookID, scanned
SelectAvailable(tbl, book_id, dbfail) ==
  IF dbfail THEN [available |-> FALSE, err |-> <<ErrDb>>]
  ELSE IF book_id \notin DOMAIN tbl THEN [available |-> FALSE, err |-> <<ErrNoRows>>]
  ELSE [available |-> tbl[book_id].available, err |-> Nil]

\* BorrowRow with the two references in each other's column
BorrowRowSwapped(user_id, book_id, due_date, raced) ==
  [user_id |-> book_id, book_id |-> user_id, due_date |-> due_date,
   return_date |-> NULL, raced |-> raced]

\* the row INSERT INTO borrows (user_id, book_id, due_date) stores; return_date
\* is NULL. raced is history, not a column: whether the call that inserted the
\* row read the availability while another call on the same book stood
\* between its read and its update
BorrowRow(user_id, book_id, due_date, raced) ==
  [user_id |-> user_id, book_id |-> book_id, due_date |-> due_date,
   return_date |-> NULL, raced |-> raced]

\* InsertBorrow under a rule that a book has at most one open borrow record
InsertBorrowOneOpen(tbl, usrs, bks, user_id, book_id, due_date, raced, dbfail) ==
  IF dbfail THEN [borrows |-> tbl, id |-> EmptyId, err |-> <<ErrDb>>]
  ELSE IF user_id \notin DOMAIN usrs \/ book_id \notin DOMAIN bks
    THEN [borrows |-> tbl, id |-> EmptyId, err |-> <<ErrForeignKey>>]
  ELSE IF \E r \in DOMAIN tbl : tbl[r].book_id = book_id /\ tbl[r].return_date = NULL
    THEN [borrows |-> tbl, id |-> EmptyId, err |-> <<ErrUnique>>]
  ELSE LET id == NewId(tbl) IN
       [borrows |-> Insert(tbl, id, [user_id |-> user_id, book_id |-> book_id,
                                     due_date |-> due_date, return_date |-> NULL,
                                     raced |-> raced]),
        id |-> id, err |-> Nil]

\* InsertBorrow into a table whose columns carry no REFERENCES constraint
InsertBorrowUnreferenced(tbl, usrs, bks, user_id, book_id, due_date, raced, dbfail) ==
  IF dbfail THEN [borrows |-> tbl, id |-> EmptyId, err |-> <<ErrDb>>]
  ELSE LET id == NewId(tbl) IN
       [borrows |-> Insert(tbl, id, BorrowRow(user_id, book_id, due_date, raced)),
        id |-> id, err |-> Nil]

\* INSERT INTO borrows ... RETURNING id, under the REFERENCES constraints
InsertBorrow(tbl, usrs, bks, user_id, book_id, due_date, raced, dbfail) ==
  IF dbfail THEN [borrows |-> tbl, id |-> EmptyId, err |-> <<ErrDb>>]
  ELSE IF user_id \notin DOMAIN usrs \/ book_id \notin DOMAIN bks
    THEN [borrows |-> tbl, id |-> EmptyId, err |-> <<ErrForeignKey>>]
  ELSE LET id == NewId(tbl) IN
       [borrows |-> Insert(tbl, id, BorrowRow(user_id, book_id, due_date, raced)),
        id |-> id, err |-> Nil]

\* SelectBorrow that takes no row for a row of zero values
SelectBorrowNoRowOk(tbl, borrow_id, dbfail) ==
  IF dbfail THEN [book_id |-> EmptyId, err |-> <<ErrDb>>]
  ELSE IF borrow_id \notin DOMAIN tbl THEN [book_id |-> EmptyId, err |-> Nil]
  ELSE [book_id |-> tbl[borrow_id].book_id, err |-> Nil]

\* SELECT book_id FROM borrows WHERE id = borrowID, scanned
SelectBorrow(tbl, borrow_id, dbfail) ==
  IF dbfail THEN [book_id |-> EmptyId, err |-> <<ErrDb>>]
  ELSE IF borrow_id \notin DOMAIN tbl THEN [book_id |-> EmptyId, err |-> <<ErrNoRows>>]
  ELSE [book_id |-> tbl[borrow_id].book_id, err |-> Nil]

\* StampReturn that removes the record instead of stamping it
StampReturnDeletes(tbl, borrow_id, t) ==
  [k \in DOMAIN tbl \ {borrow_id} |-> tbl[k]]

\* StampReturn restricted to records not yet returned
StampReturnOnce(tbl, borrow_id, t) ==
  IF borrow_id \in DOMAIN tbl /\ tbl[borrow_id].return_date = NULL
    THEN [tbl EXCEPT ![borrow_id].return_date = t]
    ELSE tbl

\* UPDATE borrows SET return_date = NOW() WHERE id = borrowID
StampReturn(tbl, borrow_id, t) ==
  IF borrow_id \in DOMAIN tbl THEN [tbl EXCEPT ![borrow_id].return_date = t] ELSE tbl

\* the handlers that have read available = true for the book and have not yet
\* issued their update
InWindow(book_id) == {q \in Procs : pc[q] = "b_update" /\ loc[q].book_id = book_id}

\* the handlers between the first and the last statement of a BorrowBook
Borrowing == {q \in Procs : pc[q] \in {"b_update", "b_insert", "b_revert"}}

\* the handler returns: the facade's response, the locals dropped
Finish(p, resp) ==
  /\ pc' = [pc EXCEPT ![p] = "idle"]
  /\ loc' = [loc EXCEPT ![p] = IdleLoc]
  /\ last' = resp

\* BorrowFailed that reports the store's error as a missing entity
BorrowFailedNotFound(l, err, stmts) ==
  Response("BorrowBook", [user_id |-> l.user_id, book_id |-> l.book_id], NotFound,
           <<"failed to borrow book">> \o err, NoVal, 1, stmts)

\* the response of LibraryService.BorrowBook for a failed store call
BorrowFailed(l, err, stmts) ==
  Response("BorrowBook", [user_id |-> l.user_id, book_id |-> l.book_id], Internal,
           <<"failed to borrow book">> \o err, NoVal, 1, stmts)

\* the response of LibraryService.ReturnBook for a failed store call
ReturnFailed(l, err, stmts) ==
  Response("ReturnBook", [borrow_id |-> l.borrow_id], Internal,
           <<"failed to return book">> \o err, NoVal, 1, stmts)

\* LibraryService.BorrowBook up to the availability check of
\* BookRepository.BorrowBook
BorrowCheck(p, user_id, book_id, dbfail) ==
  /\ pc[p] = "idle"
  /\ LET req == [user_id |-> user_id, book_id |-> book_id]
         l == [IdleLoc EXCEPT !.op = "BorrowBook", !.user_id = user_id,
                              !.book_id = book_id,
                              !.due_date = AddDate(now, LoanDays), !.stmts = 1]
         r == SelectAvailable(books, book_id, dbfail)
     IN IF user_id = EmptyId \/ book_id = EmptyId
          THEN /\ last' = Response("BorrowBook", req, InvalidArgument,
                                   <<"user id and book id are required">>, NoVal, 0, 0)
               /\ UNCHANGED <<pc, loc>>
        ELSE IF r.err # Nil
          THEN Finish(p, BorrowFailed(l, <<"failed to check book availability">> \o r.err, 1))
        ELSE IF ~ r.available
          THEN Finish(p, BorrowFailed(l, <<"book is not available">>, 1))
        ELSE /\ Cardinality(DOMAIN borrows) + Cardinality(Borrowing) < MaxBorrows
             /\ pc' = [pc EXCEPT ![p] = "b_update"]
             /\ loc' = [q \in Procs |->
                          IF q = p THEN [l EXCEPT !.raced = InWindow(book_id) # {}]
                          ELSE IF q \in InWindow(book_id) THEN [loc[q] EXCEPT !.raced = TRUE]
                          ELSE loc[q]]
             /\ last' = last
  /\ UNCHANGED <<users, books, borrows, now>>

\* BorrowUpdate that issues its statement again when it has failed
BorrowUpdateRetried(p, dbfail) ==
  /\ pc[p] = "b_update"
  /\ IF dbfail
       THEN /\ loc' = [loc EXCEPT ![p].stmts = @ + 1]
            /\ UNCHANGED <<books, pc, last>>
       ELSE /\ books' = SetAvailable(books, loc[p].book_id, FALSE)
            /\ pc' = [pc EXCEPT ![p] = "b_insert"]
            /\ loc' = [loc EXCEPT ![p].stmts = @ + 1]
            /\ last' = last
  /\ UNCHANGED <<users, borrows, now>>

\* UPDATE books SET available = false
BorrowUpdate(p, dbfail) ==
  /\ pc[p] = "b_update"
  /\ IF dbfail
       THEN /\ Finish(p, BorrowFailed(loc[p], <<"failed to update book availability", ErrDb>>,
                                      loc[p].stmts + 1))
            /\ books' = books
       ELSE /\ books' = SetAvailable(books, loc[p].book_id, FALSE)
            /\ pc' = [pc EXCEPT ![p] = "b_insert"]
            /\ loc' = [loc EXCEPT ![p].stmts = @ + 1]
            /\ last' = last
  /\ UNCHANGED <<users, borrows, now>>

\* INSERT INTO borrows; on success BorrowBook returns the borrow ID
BorrowInsert(p, dbfail) ==
  /\ pc[p] = "b_insert"
  /\ LET l == loc[p]
         r == InsertBorrow(borrows, users, books, l.user_id, l.book_id, l.due_date,
                           l.raced, dbfail)
     IN IF r.err # Nil
          THEN /\ pc' = [pc EXCEPT ![p] = "b_revert"]
               /\ loc' = [loc EXCEPT ![p].err = <<"failed to create borrow record">> \o r.err,
                                     ![p].stmts = @ + 1]
               /\ last' = last
               /\ borrows' = borrows
          ELSE /\ borrows' = r.borrows
               /\ Finish(p, Response("BorrowBook",
                                     [user_id |-> l.user_id, book_id |-> l.book_id], OK, Nil,
                                     [borrow_id |-> r.id,
                                      due_date |-> FormatRFC3339(l.due_date)],
                                     1, l.stmts + 1))
  /\ UNCHANGED <<users, books, now>>

\* BorrowRevert that returns the error of a failed compensating update
BorrowRevertReported(p, dbfail) ==
  /\ pc[p] = "b_revert"
  /\ books' = IF dbfail THEN books ELSE SetAvailable(books, loc[p].book_id, TRUE)
  /\ Finish(p, BorrowFailed(loc[p],
                            IF dbfail THEN <<"failed to revert book availability", ErrDb>>
                            ELSE loc[p].err,
                            loc[p].stmts + 1))
  /\ UNCHANGED <<users, borrows, now>>

\* the compensating UPDATE books SET available = true; its failure is only
\* printed, and the insert error is returned
BorrowRevert(p, dbfail) ==
  /\ pc[p] = "b_revert"
  /\ books' = IF dbfail THEN books ELSE SetAvailable(books, loc[p].book_id, TRUE)
  /\ Finish(p, BorrowFailed(loc[p], loc[p].err, loc[p].stmts + 1))
  /\ UNCHANGED <<users, borrows, now>>

\* LibraryService.ReturnBook up to the lookup of BookRepository.ReturnBook
ReturnLookup(p, borrow_id, dbfail) ==
  /\ pc[p] = "idle"
  /\ LET req == [borrow_id |-> borrow_id]
         r == SelectBorrow(borrows, borrow_id, dbfail)
         l == [IdleLoc EXCEPT !.op = "ReturnBook", !.borrow_id = borrow_id,
                              !.book_id = r.book_id, !.stmts = 1]
     IN IF borrow_id = EmptyId
          THEN /\ last' = Response("ReturnBook", req, InvalidArgument,
                                   <<"borrow id is required">>, NoVal, 0, 0)
               /\ UNCHANGED <<pc, loc>>
        ELSE IF r.err # Nil
          THEN Finish(p, ReturnFailed(l, <<"failed to get borrow">> \o r.err, 1))
        ELSE /\ pc' = [pc EXCEPT ![p] = "r_update"]
             /\ loc' = [loc EXCEPT ![p] = l]
             /\ last' = last
  /\ UNCHANGED <<users, books, borrows, now>>

\* UPDATE books SET available = true
ReturnUpdate(p, dbfail) ==
  /\ pc[p] = "r_update"
  /\ IF dbfail
       THEN /\ Finish(p, ReturnFailed(loc[p], <<"failed to update book availability", ErrDb>>,
                                      loc[p].stmts + 1))
            /\ books' = books
       ELSE /\ books' = SetAvailable(books, loc[p].book_id, TRUE)
            /\ pc' = [pc EXCEPT ![p] = "r_stamp"]
            /\ loc' = [loc EXCEPT ![p].stmts = @ + 1]
            /\ last' = last
  /\ UNCHANGED <<users, borrows, now>>

\* UPDATE borrows SET return_date = NOW(); on success ReturnBook returns nil
ReturnStamp(p, dbfail) ==
  /\ pc[p] = "r_stamp"
  /\ IF dbfail
       THEN /\ pc' = [pc EXCEPT ![p] = "r_revert"]
            /\ loc' = [loc EXCEPT ![p].err = <<"failed to update borrow record", ErrDb>>,
                                  ![p].stmts = @ + 1]
            /\ last' = last
            /\ borrows' = borrows
       ELSE /\ borrows' = StampReturn(borrows, loc[p].borrow_id, now)
            /\ Finish(p, Response("ReturnBook", [borrow_id |-> loc[p].borrow_id], OK, Nil,
                                  [success |-> TRUE], 1, loc[p].stmts + 1))
  /\ UNCHANGED <<users, books, now>>

\* ReturnRevert that returns the error of a failed compensating update
ReturnRevertReported(p, dbfail) ==
  /\ pc[p] = "r_revert"
  /\ books' = IF dbfail THEN books ELSE SetAvailable(books, loc[p].book_id, FALSE)
  /\ Finish(p, ReturnFailed(loc[p],
                            IF dbfail THEN <<"failed to revert book availability", ErrDb>>
                            ELSE loc[p].err,
                            loc[p].stmts + 1))
  /\ UNCHANGED <<users, borrows, now>>

\* the compensating UPDATE books SET available = false
ReturnRevert(p, dbfail) ==
  /\ pc[p] = "r_revert"
  /\ books' = IF dbfail THEN books ELSE SetAvailable(books, loc[p].book_id, FALSE)
  /\ Finish(p, ReturnFailed(loc[p], loc[p].err, loc[p].stmts + 1))
  /\ UNCHANGED <<users, borrows, now>>

\* time passes
Tick ==
  /\ now < MaxTime
  /\ now' = now + 1
  /\ UNCHANGED <<users, books, borrows, pc, loc, last, client>>

-----------------------------------------------------------------------------
(* Specifications *)

\* the registration the ledger's specifications draw their user from
LedgerUser == [name |-> "Ann", email |-> EmailAnn, password |-> "password123"]

\* the books the ledger's specifications create
LedgerBooks ==
  [title : {"Foo"}, author : {"Bar"}, isbn : {"111"}, available : BOOLEAN] \cup
  [title : {"Goo"}, author : {"Bar"}, isbn : {"222"}, available : BOOLEAN]

\* the handler that serves the requests arriving one at a time
Serial == CHOOSE p \in Procs : TRUE

\* one step of handler p on the catalog and the ledger; dbfail: the statement
\* it issues fails in the store
LedgerStep(p, dbfail) ==
  \/ \E salt \in Salts :
       RegisterUser(p, LedgerUser.name, LedgerUser.email, LedgerUser.password, salt, dbfail) /\ UNCHANGED client
  \/ \E book \in LedgerBooks : CreateBook(p, book, dbfail) /\ UNCHANGED client
  \/ \E id \in {EmptyId} \cup BookIds : GetBook(p, id, dbfail) /\ UNCHANGED client
  \/ \E user_id \in {EmptyId} \cup UserIds, book_id \in {EmptyId} \cup BookIds :
       BorrowCheck(p, user_id, book_id, dbfail) /\ UNCHANGED client
  \/ BorrowUpdate(p, dbfail) /\ UNCHANGED client
  \/ BorrowInsert(p, dbfail) /\ UNCHANGED client
  \/ BorrowRevert(p, dbfail) /\ UNCHANGED client
  \/ \E borrow_id \in {EmptyId} \cup BorrowIds : ReturnLookup(p, borrow_id, dbfail) /\ UNCHANGED client
  \/ ReturnUpdate(p, dbfail) /\ UNCHANGED client
  \/ ReturnStamp(p, dbfail) /\ UNCHANGED client
  \/ ReturnRevert(p, dbfail) /\ UNCHANGED client

\* the catalog and the ledger, requests served one at a time, statements may
\* fail in the store
Next == (\E dbfail \in BOOLEAN : LedgerStep(Serial, dbfail)) \/ Tick

Spec == Init /\ [][Next]_vars

\* the next statement of the operation handler p is in the middle of: the
\* statement is issued and ends, with a result or with an error
Proceed(p) ==
  \E dbfail \in BOOLEAN :
     \/ BorrowUpdate(p, dbfail) /\ UNCHANGED client
     \/ BorrowInsert(p, dbfail) /\ UNCHANGED client
     \/ BorrowRevert(p, dbfail) /\ UNCHANGED client
     \/ ReturnUpdate(p, dbfail) /\ UNCHANGED client
     \/ ReturnStamp(p, dbfail) /\ UNCHANGED client
     \/ ReturnRevert(p, dbfail) /\ UNCHANGED client

\* Spec with a handler that keeps running: an operation in progress goes on
\* to its next statement, and every statement ends
SpecLive == Init /\ [][Next]_vars /\ WF_vars(Proceed(Serial))

\* one step of handler p when every statement succeeds: no statement fails in
\* the store and the borrower is a stored user, so no compensating update runs;
\* books are created available, as the client creates them
SeqStep(p) ==
  \/ \E salt \in Salts :
       RegisterUser(p, LedgerUser.name, LedgerUser.email, LedgerUser.password, salt, FALSE) /\ UNCHANGED client
  \/ \E book \in {b \in LedgerBooks : b.available} : CreateBook(p, book, FALSE) /\ UNCHANGED client
  \/ \E id \in {EmptyId} \cup BookIds : GetBook(p, id, FALSE) /\ UNCHANGED client
  \/ \E user_id \in {EmptyId} \cup DOMAIN users, book_id \in {EmptyId} \cup BookIds :
       BorrowCheck(p, user_id, book_id, FALSE) /\ UNCHANGED client
  \/ BorrowUpdate(p, FALSE) /\ UNCHANGED client
  \/ BorrowInsert(p, FALSE) /\ UNCHANGED client
  \/ \E borrow_id \in {EmptyId} \cup BorrowIds : ReturnLookup(p, borrow_id, FALSE) /\ UNCHANGED client
  \/ ReturnUpdate(p, FALSE) /\ UNCHANGED client
  \/ ReturnStamp(p, FALSE) /\ UNCHANGED client

\* requests served one at a time, every statement succeeds
NextSeq == SeqStep(Serial) \/ Tick

SpecSeq == Init /\ [][NextSeq]_vars

\* one step of handler p among concurrent borrowers and returners
RaceStep(p) ==
  \/ \E salt \in Salts :
       RegisterUser(p, LedgerUser.name, LedgerUser.email, LedgerUser.password, salt, FALSE) /\ UNCHANGED client
  \/ \E book \in LedgerBooks : CreateBook(p, book, FALSE) /\ UNCHANGED client
  \/ \E user_id \in DOMAIN users, book_id \in BookIds : BorrowCheck(p, user_id, book_id, FALSE) /\ UNCHANGED client
  \/ BorrowUpdate(p, FALSE) /\ UNCHANGED client
  \/ BorrowInsert(p, FALSE) /\ UNCHANGED client
  \/ \E borrow_id \in BorrowIds : ReturnLookup(p, borrow_id, FALSE) /\ UNCHANGED client
  \/ ReturnUpdate(p, FALSE) /\ UNCHANGED client
  \/ ReturnStamp(p, FALSE) /\ UNCHANGED client

\* handlers interleave between their statements
NextRace == \E p \in Procs : RaceStep(p)

SpecRace == Init /\ [][NextRace]_vars

\* one step of handler p on the credential store, over all request inputs
UserStep(p, dbfail) ==
  \/ \E name \in Names, email \in Emails, password \in Passwords, salt \in Salts :
       RegisterUser(p, name, email, password, salt, dbfail) /\ UNCHANGED client
  \/ \E email \in Emails, password \in Passwords : LoginUser(p, email, password, dbfail) /\ UNCHANGED client
  \/ \E id \in UserIds : GetUserByID(p, id, dbfail) /\ UNCHANGED client

\* the credential store: registrations and logins, statements may fail
NextUsers == \E p \in Procs, dbfail \in BOOLEAN : UserStep(p, dbfail)

SpecUsers == Init /\ [][NextUsers]_vars

\* the registrations the client draws its request from
ClientUsers ==
  [name : {"Ann"}, email : {EmailAnn, EmailBob}, password : {"password123", "password124"}]

\* log.Fatalf: the client stops at the first call that fails
Fatal == [client EXCEPT !.pc = "fatal"]

\* the client program run against the service: it registers a user, creates
\* a book with Available: true, borrows the book, reads it, returns the borrow
\* it was given and reads the book again; each call is served by the handler
\* p, statement by statement, and no statement fails. The client may go
\* through the borrowing again, with the same book or with another one.
ScenarioStep(p) ==
  \/ /\ client.pc = "register"
     /\ \E u \in ClientUsers, salt \in Salts :
          RegisterUser(p, u.name, u.email, u.password, salt, FALSE)
     /\ client' = IF last'.code # OK THEN Fatal
                  ELSE [client EXCEPT !.pc = "create", !.userID = last'.val.user.id]
  \/ /\ client.pc = "create"
     /\ \E book \in {b \in LedgerBooks : b.available} : CreateBook(p, book, FALSE)
     /\ client' = IF last'.code # OK THEN Fatal
                  ELSE [client EXCEPT !.pc = "borrow", !.bookID = last'.val.book.id]
  \/ /\ client.pc = "borrow"
     /\ BorrowCheck(p, client.userID, client.bookID, FALSE)
     /\ client' = IF pc'[p] = "idle" THEN Fatal
                  ELSE [client EXCEPT !.pc = "borrowing", !.borrowedAt = now, !.seen = <<>>]
  \/ /\ client.pc = "borrowing"
     /\ BorrowUpdate(p, FALSE)
     /\ UNCHANGED client
  \/ /\ client.pc = "borrowing"
     /\ BorrowInsert(p, FALSE)
     /\ client' = IF pc'[p] # "idle" THEN Fatal
                  ELSE [client EXCEPT !.pc = "get", !.borrowID = last'.val.borrow_id,
                                      !.seen = Append(@, last'.val)]
  \/ /\ client.pc \in {"get", "get again"}
     /\ GetBook(p, client.bookID, FALSE)
     /\ client' = IF last'.code # OK THEN Fatal
                  ELSE [client EXCEPT !.pc = IF @ = "get" THEN "return" ELSE "done",
                                      !.seen = Append(@, last'.val.book.available)]
  \/ /\ client.pc = "return"
     /\ ReturnLookup(p, client.borrowID, FALSE)
     /\ client' = IF pc'[p] = "idle" THEN Fatal ELSE [client EXCEPT !.pc = "returning"]
  \/ /\ client.pc = "returning"
     /\ ReturnUpdate(p, FALSE)
     /\ UNCHANGED client
  \/ /\ client.pc = "returning"
     /\ ReturnStamp(p, FALSE)
     /\ client' = [client EXCEPT !.pc = "get again", !.seen = Append(@, last'.val.success)]
  \/ /\ client.pc = "done"
     /\ \E next \in {"create", "borrow"} : client' = [client EXCEPT !.pc = next]
     /\ UNCHANGED <<users, books, borrows, now, pc, loc, last>>

\* the client's calls, served one at a time
NextScenario == ScenarioStep(Serial) \/ Tick

SpecScenario == Init /\ [][NextScenario]_vars

\* the credentials the facade's specification logs in with
FacadeEmails == {EmailEmpty, EmailAnn, EmailBob}
FacadePasswords == {"", "password123", "password124"}

\* the books the facade's specification asks to create: requests without a
\* required field, and books of which two have the same title
FacadeBooks ==
  {NilBook,
   [title |-> "", author |-> "Bar", isbn |-> "111", available |-> TRUE],
   [title |-> "Foo", author |-> "", isbn |-> "111", available |-> TRUE],
   [title |-> "Foo", author |-> "Bar", isbn |-> "111", available |-> TRUE],
   [title |-> "Foo", author |-> "Bar", isbn |-> "222", available |-> TRUE],
   [title |-> "Goo", author |-> "Bar", isbn |-> "111", available |-> TRUE]}

\* the page sizes and page tokens of the ListBooks requests
PageSizes == {-1, 0, 1, 2}
PageTokens == {"", "next"}

\* one step of handler p on the whole facade, over requests with and without
\* their required fields; dbfail: the statement it issues fails in the store
FacadeStep(p, dbfail) ==
  \/ \E salt \in Salts :
       RegisterUser(p, LedgerUser.name, LedgerUser.email, LedgerUser.password, salt, dbfail)
       /\ UNCHANGED client
  \/ \E email \in FacadeEmails, password \in FacadePasswords :
       LoginUser(p, email, password, dbfail) /\ UNCHANGED client
  \/ \E book \in FacadeBooks : CreateBook(p, book, dbfail) /\ UNCHANGED client
  \/ \E id \in {EmptyId} \cup BookIds : GetBook(p, id, dbfail) /\ UNCHANGED client
  \/ \E page_size \in PageSizes, page_token \in PageTokens :
       ListBooks(p, page_size, page_token, dbfail) /\ UNCHANGED client
  \/ \E book_id \in {EmptyId} \cup BookIds :
       CheckBookAvailability(p, book_id, dbfail) /\ UNCHANGED client
  \/ \E user_id \in {EmptyId} \cup UserIds, book_id \in {EmptyId} \cup BookIds :
       BorrowCheck(p, user_id, book_id, dbfail) /\ UNCHANGED client
  \/ BorrowUpdate(p, dbfail) /\ UNCHANGED client
  \/ BorrowInsert(p, dbfail) /\ UNCHANGED client
  \/ BorrowRevert(p, dbfail) /\ UNCHANGED client
  \/ \E borrow_id \in {EmptyId} \cup BorrowIds :
       ReturnLookup(p, borrow_id, dbfail) /\ UNCHANGED client
  \/ ReturnUpdate(p, dbfail) /\ UNCHANGED client
  \/ ReturnStamp(p, dbfail) /\ UNCHANGED client
  \/ ReturnRevert(p, dbfail) /\ UNCHANGED client

\* the eight operations of the facade, requests served one at a time,
\* statements may fail in the store
NextFacade == \E dbfail \in BOOLEAN : FacadeStep(Serial, dbfail)

SpecFacade == Init /\ [][NextFacade]_vars

\* the handlers whose server process has not stopped
Running == {q \in Procs : pc[q] # "crashed"}

\* the handler of the server process now serving: the processes are started
\* one after the other, each after the one before it has stopped
Current == CHOOSE q \in Running : \A r \in Running : q <= r

\* the server process stops while handler p is between two statements of a
\* BorrowBook or a ReturnBook: the statements issued stay in the store, the
\* rest of the operation never runs and the caller gets no response
Crash(p) ==
  /\ pc[p] \notin {"idle", "crashed"}
  /\ pc' = [pc EXCEPT ![p] = "crashed"]
  /\ UNCHANGED <<users, books, borrows, now, loc, last>>

\* one step of handler p while its process is the one serving, or the stop of
\* that process when another can be started after it; no statement fails in
\* the store, so the only failures are the store's refusals
CrashStep(p) ==
  \/ \E salt \in Salts :
       p = Current /\ RegisterUser(p, LedgerUser.name, LedgerUser.email, LedgerUser.password, salt, FALSE) /\ UNCHANGED client
  \/ \E book \in LedgerBooks : p = Current /\ CreateBook(p, book, FALSE) /\ UNCHANGED client
  \/ \E id \in {EmptyId} \cup BookIds : p = Current /\ GetBook(p, id, FALSE) /\ UNCHANGED client
  \/ \E user_id \in {EmptyId} \cup UserIds, book_id \in {EmptyId} \cup BookIds :
       p = Current /\ BorrowCheck(p, user_id, book_id, FALSE) /\ UNCHANGED client
  \/ p = Current /\ BorrowUpdate(p, FALSE) /\ UNCHANGED client
  \/ p = Current /\ BorrowInsert(p, FALSE) /\ UNCHANGED client
  \/ p = Current /\ BorrowRevert(p, FALSE) /\ UNCHANGED client
  \/ \E borrow_id \in {EmptyId} \cup BorrowIds :
       p = Current /\ ReturnLookup(p, borrow_id, FALSE) /\ UNCHANGED client
  \/ p = Current /\ ReturnUpdate(p, FALSE) /\ UNCHANGED client
  \/ p = Current /\ ReturnStamp(p, FALSE) /\ UNCHANGED client
  \/ p = Current /\ Cardinality(Running) > 1 /\ Crash(p) /\ UNCHANGED client

\* the catalog and the ledger served by one process at a time; a process may
\* stop in the middle of an operation, and the next one serves what follows
NextCrash == \E p \in Procs : CrashStep(p)

SpecCrash == Init /\ [][NextCrash]_vars

-----------------------------------------------------------------------------
(* Properties *)

AllIdle == \A p \in Procs : pc[p] = "idle"

\* the borrow records of book b whose return_date is NULL
OpenBorrows(b) ==
  {r \in DOMAIN borrows : borrows[r].book_id = b /\ borrows[r].return_date = NULL}

\* C1: with operations run one at a time and every statement succeeding, after
\* every operation a book's availability flag is false if and only if at
\* least one borrow record referencing the book has a null return timestamp.
C1_UnavailableIffOpenBorrow ==
  AllIdle => \A b \in DOMAIN books : (~ books[b].available) <=> (OpenBorrows(b) # {})

\* C2: two concurrent BorrowBook calls for the same available book can both
\* read available = true before either sets it to false; each such call goes
\* on to its update and its insert, and returns a borrow ID of its own without
\* error, its record referencing the book with a null return timestamp.
C2_RacingBorrowersBothSucceed ==
  [][\A p \in Procs :
       (loc[p].raced /\ pc'[p] # pc[p]) =>
         LET b == loc[p].book_id IN
         \/ /\ pc[p] = "b_update"
            /\ pc'[p] = "b_insert"
            /\ ~ books'[b].available
         \/ /\ pc[p] = "b_insert"
            /\ pc'[p] = "idle"
            /\ last'.op = "BorrowBook"
            /\ last'.code = OK
            /\ last'.val.borrow_id \in DOMAIN borrows' \ DOMAIN borrows
            /\ borrows'[last'.val.borrow_id].book_id = b
            /\ borrows'[last'.val.borrow_id].return_date = NULL]_vars

\* both calls have returned and two open records reference the same book
C2_DoubleBorrow ==
  /\ AllIdle
  /\ last.op = "BorrowBook"
  /\ last.code = OK
  /\ \E r1, r2 \in DOMAIN borrows :
       /\ r1 # r2
       /\ borrows[r1].book_id = borrows[r2].book_id
       /\ borrows[r1].return_date = NULL /\ borrows[r2].return_date = NULL
       /\ borrows[r1].raced /\ borrows[r2].raced

\* C3: BorrowBook on a stored book whose availability flag is false returns
\* the error "book is not available" (or, when the read itself fails, the
\* error of the read); BorrowBook on a book ID that has no row fails at the
\* availability read. In both cases it stops after that one statement: no
\* book and no borrow record is written, and the call never reaches its
\* update.
C3_BorrowRefusedWithoutWrite ==
  [][/\ \A p \in Procs :
          (pc[p] = "idle" /\ pc'[p] = "b_update") =>
             (loc'[p].book_id \in DOMAIN books /\ books[loc'[p].book_id].available)
     /\ (/\ AllIdle /\ AllIdle' /\ last' # last
         /\ last'.op = "BorrowBook" /\ last'.calls = 1) =>
          LET b == last'.req.book_id IN
          /\ last'.code = Internal
          /\ last'.stmts = 1
          /\ books' = books
          /\ borrows' = borrows
          /\ (b \in DOMAIN books /\ ~ books[b].available) =>
               last'.msg \in {<<"failed to borrow book", "book is not available">>,
                              <<"failed to borrow book",
                                "failed to check book availability", ErrDb>>}
          /\ (b \notin DOMAIN books) =>
               last'.msg \in {<<"failed to borrow book",
                                "failed to check book availability", ErrNoRows>>,
                              <<"failed to borrow book",
                                "failed to check book availability", ErrDb>>}]_vars

\* a borrow of a book that is out on loan has been refused
C3_RefusedUnavailable ==
  /\ AllIdle
  /\ last.op = "BorrowBook"
  /\ last.msg = <<"failed to borrow book", "book is not available">>
  /\ last.req.book_id \in DOMAIN books
  /\ ~ books[last.req.book_id].available
  /\ OpenBorrows(last.req.book_id) # {}

\* C4: when BorrowBook succeeds on an available book, requests served one at
\* a time, GetByID on the book reports available = false and exactly one
\* borrow record is new: it references the given user and book, carries the
\* given due date, has a NULL return_date, and its identifier is the value
\* BorrowBook returned; no other statement of the call adds a record.
C4_BorrowRecordsTheLoan ==
  [][/\ \A p \in Procs :
          (pc[p] = "b_insert" /\ pc'[p] = "idle") =>
             LET l == loc[p]
                 id == last'.val.borrow_id
                 got == BookGetByID(books', l.book_id, FALSE)
             IN /\ last'.op = "BorrowBook" /\ last'.code = OK
                /\ last'.req = [user_id |-> l.user_id, book_id |-> l.book_id]
                /\ got.err = Nil
                /\ got.book.available = FALSE
                /\ id \notin DOMAIN borrows
                /\ DOMAIN borrows' = DOMAIN borrows \cup {id}
                /\ \A r \in DOMAIN borrows : borrows'[r] = borrows[r]
                /\ borrows'[id].user_id = l.user_id
                /\ borrows'[id].book_id = l.book_id
                /\ borrows'[id].due_date = l.due_date
                /\ borrows'[id].return_date = NULL
     /\ (DOMAIN borrows' # DOMAIN borrows) =>
          (\E p \in Procs : pc[p] = "b_insert" /\ pc'[p] = "idle")]_vars

\* a second loan has been recorded, for the second book
C4_Borrowed ==
  /\ AllIdle
  /\ last.op = "BorrowBook"
  /\ last.code = OK
  /\ last.val.borrow_id \in DOMAIN borrows
  /\ last.val.borrow_id > 1
  /\ borrows[last.val.borrow_id].book_id > 1
  /\ borrows[last.val.borrow_id].return_date = NULL
  /\ ~ books[last.req.book_id].available

\* C5: ReturnBook called with the identifier of a borrow record whose
\* return_date is NULL, all its statements succeeding, leaves the book the
\* record references available and the record's return_date not NULL.
C5_ReturnClosesTheLoan ==
  [][\A p \in Procs :
       (/\ pc[p] = "r_stamp" /\ pc'[p] = "idle"
        /\ borrows[loc[p].borrow_id].return_date = NULL) =>
         LET id == loc[p].borrow_id IN
         /\ last'.op = "ReturnBook" /\ last'.code = OK
         /\ last'.val = [success |-> TRUE]
         /\ last'.stmts = 3
         /\ books'[borrows[id].book_id].available = TRUE
         /\ borrows'[id].return_date # NULL
         /\ borrows'[id].return_date = now]_vars

\* an open loan has been returned after the clock advanced
C5_Returned ==
  /\ AllIdle
  /\ last.op = "ReturnBook"
  /\ last.code = OK
  /\ borrows[last.req.borrow_id].return_date = MaxTime
  /\ books[borrows[last.req.borrow_id].book_id].available
  /\ OpenBorrows(borrows[last.req.borrow_id].book_id) = {}

\* C8: ReturnBook with a non-empty borrow ID that matches no borrow record
\* returns the error "failed to get borrow" after its one statement and
\* changes no book and no borrow record; the call never reaches its update.
C8_ReturnOfUnknownBorrowFails ==
  [][/\ \A p \in Procs :
          (pc[p] = "idle" /\ pc'[p] = "r_update") => loc'[p].borrow_id \in DOMAIN borrows
     /\ (/\ AllIdle /\ AllIdle' /\ last' # last
         /\ last'.op = "ReturnBook" /\ last'.calls = 1
         /\ last'.req.borrow_id \notin DOMAIN borrows) =>
          /\ last'.code = Internal
          /\ Len(last'.msg) = 3
          /\ last'.msg[1] = "failed to return book"
          /\ last'.msg[2] = "failed to get borrow"
          /\ last'.msg[3] \in {ErrNoRows, ErrDb}
          /\ last'.stmts = 1
          /\ books' = books
          /\ borrows' = borrows]_vars

\* a return of an unknown borrow has been refused while a loan is open
C8_UnknownBorrowRefused ==
  /\ AllIdle
  /\ last.op = "ReturnBook"
  /\ last.msg = <<"failed to return book", "failed to get borrow", ErrNoRows>>
  /\ last.req.borrow_id \notin DOMAIN borrows
  /\ \E b \in DOMAIN books : ~ books[b].available /\ OpenBorrows(b) # {}

\* C6: for a registered user and a book created with available = true, the
\* calls BorrowBook, GetBook, ReturnBook(the borrow ID returned), GetBook,
\* served one after the other with no statement failing, never fail and yield
\* in order: a borrow ID with a due date 14 days after the time of the borrow
\* (as RFC 3339 renders it, in whole seconds),
\* available = false, success = true, available = true.
C6_BorrowReadReturnRead ==
  LET seen == client.seen IN
  /\ client.pc = "fatal" => last.op \in {"RegisterUser", "CreateBook"}
  /\ client.pc \in {"get", "return", "returning", "get again", "done"} =>
       /\ Len(seen) = CASE client.pc = "get" -> 1
                        [] client.pc \in {"return", "returning"} -> 2
                        [] client.pc = "get again" -> 3
                        [] client.pc = "done" -> 4
       /\ seen[1].borrow_id = client.borrowID
       /\ seen[1].borrow_id \in DOMAIN borrows
       /\ borrows[seen[1].borrow_id].user_id = client.userID
       /\ borrows[seen[1].borrow_id].book_id = client.bookID
       /\ seen[1].due_date.seconds =
            (client.borrowedAt + LoanDays * TicksPerDay) \div TicksPerSecond
       /\ Len(seen) >= 2 => seen[2] = FALSE
       /\ Len(seen) >= 3 => seen[3] = TRUE
       /\ Len(seen) >= 4 => seen[4] = TRUE

\* the client has gone through the four calls a second time, the clock having
\* advanced before the second borrow
C6_SequenceDone ==
  /\ client.pc = "done"
  /\ client.borrowID > 1
  /\ client.borrowedAt > 0
  /\ Len(client.seen) = 4

\* C7: ReturnBook does not check whether the borrow record was already
\* returned. When the call served last was a successful ReturnBook of a
\* record and the next call returns the same record, that call succeeds too:
\* its lookup finds the record, its update leaves the book available, and its
\* stamp changes nothing but the record's return_date, which it overwrites
\* with the current time; its response is the response of the first call.
C7_SecondReturnSucceeds ==
  [][(last.op = "ReturnBook" /\ last.code = OK) =>
       LET id == last.req.borrow_id IN
       /\ (AllIdle /\ last'.op = "ReturnBook" /\ last'.req.borrow_id = id) => last'.code = OK
       /\ \A p \in Procs :
            (loc[p].op = "ReturnBook" /\ loc[p].borrow_id = id /\ pc'[p] # pc[p]) =>
              \/ /\ pc[p] = "r_update" /\ pc'[p] = "r_stamp"
                 /\ books[loc[p].book_id].available
                 /\ books' = books
                 /\ borrows' = borrows
              \/ /\ pc[p] = "r_stamp" /\ pc'[p] = "idle"
                 /\ borrows[id].return_date # NULL
                 /\ borrows' = [borrows EXCEPT ![id].return_date = now]
                 /\ books' = books
                 /\ users' = users
                 /\ last' = last]_vars

\* the second return of a record is about to stamp it, at a later time than
\* the first
C7_ReturningAgain ==
  \E p \in Procs :
    /\ pc[p] = "r_stamp"
    /\ last.op = "ReturnBook"
    /\ last.code = OK
    /\ loc[p].borrow_id = last.req.borrow_id
    /\ borrows[loc[p].borrow_id].return_date # NULL
    /\ borrows[loc[p].borrow_id].return_date < now
    /\ books[loc[p].book_id].available

\* the requests RegisterUser rejects: an empty field, an email that does not
\* match the pattern, a password under 8 characters
InvalidRegistration(req) ==
  \/ req.name = ""
  \/ req.email = <<>>
  \/ req.password = ""
  \/ ~ EmailRegexMatch(req.email)
  \/ Len(req.password) < 8

\* C9: RegisterUser with an empty name, email or password, with an email that
\* does not match the address pattern, or with a password shorter than 8
\* characters fails with InvalidArgument, makes no call to the user store and
\* leaves the users table as it was.
C9_InvalidRegistrationRejected ==
  [][(last'.op = "RegisterUser" /\ InvalidRegistration(last'.req)) =>
       /\ last'.code = InvalidArgument
       /\ last'.calls = 0
       /\ last'.stmts = 0
       /\ users' = users]_vars

\* a registration with a 7-character password and otherwise valid fields has
\* been rejected
C9_ShortPasswordRejected ==
  /\ last.op = "RegisterUser"
  /\ last.req.name # ""
  /\ EmailRegexMatch(last.req.email)
  /\ Len(last.req.password) = 7
  /\ last.code = InvalidArgument
  /\ last.msg = <<"password must be at least 8 characters">>

\* C10: after a successful register of a valid (name, email, password) whose
\* email was not registered, verify(email, password) with the same password
\* succeeds and returns the user register returned: same id, name and email.
C10_RegisterThenVerify ==
  (last.op = "RegisterUser" /\ last.code = OK) =>
    LET v == VerifyCredentials(users, last.req.email, last.req.password, FALSE) IN
    /\ v.err = Nil
    /\ v.user = last.val.user
    /\ v.user.id \in DOMAIN users
    /\ v.user.name = last.req.name
    /\ v.user.email = last.req.email

\* a second user has been registered
C10_Registered ==
  /\ last.op = "RegisterUser"
  /\ last.code = OK
  /\ last.val.user.id > 1
  /\ Cardinality(DOMAIN users) > 1

\* the stored users whose email is e and whose hash is the hash of password pw
Matching(e, pw) ==
  {u \in DOMAIN users :
     /\ users[u].email = e
     /\ users[u].password_hash.digest = <<users[u].password_hash.salt, pw>>}

\* C11: verify(email, password) with a password that does not match the
\* stored hash fails with "invalid credentials", and so does verify for an
\* email with no row; a login gets the same result in both cases:
\* Unauthenticated, "invalid credentials", no user data.
C11_WrongCredentialsAlike ==
  [][(last'.op = "LoginUser" /\ last'.calls = 1
      /\ Matching(last'.req.email, last'.req.password) = {}) =>
       LET v == VerifyCredentials(users, last'.req.email, last'.req.password, FALSE) IN
       /\ v = [user |-> NoVal, err |-> <<"invalid credentials">>]
       /\ last'.code = Unauthenticated
       /\ last'.msg = <<"invalid credentials">>
       /\ last'.val = NoVal
       /\ last'.http = StatusUnauthorized
       /\ users' = users]_vars

\* a login with a wrong password for a registered email has been refused
\* while another email has no row
C11_WrongPasswordRefused ==
  /\ last.op = "LoginUser"
  /\ last.code = Unauthenticated
  /\ \E u \in DOMAIN users : users[u].email = last.req.email
  /\ Matching(last.req.email, last.req.password) = {}
  /\ \E e \in Emails : e # EmailEmpty /\ \A u \in DOMAIN users : users[u].email # e

\* the responses to requests that lack a required field
MissingField(r) ==
  CASE r.op = "LoginUser" -> r.req.email = <<>> \/ r.req.password = ""
    [] r.op = "CreateBook" ->
         IF r.req.book = NilBook THEN TRUE
         ELSE r.req.book.title = "" \/ r.req.book.author = ""
    [] r.op = "GetBook" -> r.req.id = EmptyId
    [] r.op = "CheckBookAvailability" -> r.req.book_id = EmptyId
    [] r.op = "BorrowBook" -> r.req.user_id = EmptyId \/ r.req.book_id = EmptyId
    [] r.op = "ReturnBook" -> r.req.borrow_id = EmptyId
    [] OTHER -> FALSE

\* C12: LoginUser with an empty email or password, CreateBook with a nil book
\* or an empty title or author, GetBook and CheckBookAvailability with an
\* empty book ID, BorrowBook with an empty user ID or book ID, and ReturnBook
\* with an empty borrow ID return InvalidArgument with a nil response, call no
\* store method, and leave the tables and the handler as they were.
C12_RequiredFieldsChecked ==
  [][(last' # last /\ MissingField(last')) =>
       /\ last'.code = InvalidArgument
       /\ last'.val = NoVal
       /\ last'.calls = 0
       /\ last'.stmts = 0
       /\ UNCHANGED <<users, books, borrows, pc, loc>>]_vars

\* a BorrowBook without a user ID, for a stored book, has been rejected
C12_BorrowWithoutUserRejected ==
  /\ last.op = "BorrowBook"
  /\ last.req.user_id = EmptyId
  /\ last.req.book_id \in DOMAIN books
  /\ books[last.req.book_id].available
  /\ last.code = InvalidArgument

\* C13: the facade classifies every store failure by its kind: a credential
\* failure as Unauthenticated, a missing entity as NotFound, every other
\* store failure as Internal. So a failed LoginUser whose credentials match a
\* stored user, and a failed GetBook or CheckBookAvailability of a stored
\* book, are Internal, as is every failure of the other operations.
C13_FailuresClassifiedByKind ==
  [][(last' # last /\ last'.calls = 1 /\ last'.code # OK) =>
       CASE last'.op = "LoginUser" ->
              IF Matching(last'.req.email, last'.req.password) = {}
                THEN last'.code \in {Unauthenticated, Internal}
                ELSE last'.code = Internal
         [] last'.op = "GetBook" ->
              IF last'.req.id \in DOMAIN books
                THEN last'.code = Internal
                ELSE last'.code \in {NotFound, Internal}
         [] last'.op = "CheckBookAvailability" ->
              IF last'.req.book_id \in DOMAIN books
                THEN last'.code = Internal
                ELSE last'.code \in {NotFound, Internal}
         [] OTHER -> last'.code = Internal]_vars

\* C14: on every HTTP route a failure of the underlying operation is answered
\* with the status of its category: InvalidArgument with 400, Unauthenticated
\* with 401, NotFound with 404, any other failure with 500.
C14_HttpStatusOfCategory ==
  (last.op # "none" /\ last.code # OK) =>
    last.http = CASE last.code = InvalidArgument -> StatusBadRequest
                  [] last.code = Unauthenticated -> StatusUnauthorized
                  [] last.code = NotFound -> StatusNotFound
                  [] OTHER -> StatusInternalServerError

\* C15: CheckBookAvailability for a stored book returns the book's
\* availability flag, with status "Available" exactly when the flag is true
\* and "Borrowed" exactly when it is false (unless the read itself fails);
\* for a book ID the store does not find it returns NotFound and a nil
\* response. It changes no book.
C15_AvailabilityAndStatus ==
  [][(last' # last /\ last'.op = "CheckBookAvailability" /\ last'.calls = 1) =>
       LET b == last'.req.book_id IN
       /\ books' = books
       /\ (b \notin DOMAIN books) => (last'.code = NotFound /\ last'.val = NoVal)
       /\ (b \in DOMAIN books /\ last'.code = OK) =>
            /\ last'.val.available = books[b].available
            /\ last'.val.status \in {"Available", "Borrowed"}
            /\ (last'.val.status = "Available") <=> books[b].available
            /\ (last'.val.status = "Borrowed") <=> ~ books[b].available
       /\ (b \in DOMAIN books /\ last'.code # OK) =>
            /\ last'.code = NotFound
            /\ last'.val = NoVal
            /\ last'.msg = <<"book not found", "database error", ErrDb>>]_vars

\* a book out on loan has been reported as "Borrowed"
C15_ReportedBorrowed ==
  /\ last.op = "CheckBookAvailability"
  /\ last.code = OK
  /\ last.val = [available |-> FALSE, status |-> "Borrowed"]
  /\ ~ books[last.req.book_id].available
  /\ OpenBorrows(last.req.book_id) # {}

\* C16: the facade's BorrowBook passes to the store a due date of the time of
\* the call + 14 days whatever the request holds; on success the store has
\* recorded that instant, and the response holds that instant as RFC 3339
\* renders it (whole seconds) together with the borrow ID the store returned.
C16_DueDateFourteenDays ==
  [][/\ \A p \in Procs :
          /\ (pc[p] = "idle" /\ pc'[p] = "b_update") =>
               loc'[p].due_date = now + LoanDays * SecondsPerDay * TicksPerSecond
          /\ (pc[p] = "b_update" /\ pc'[p] = "b_insert") =>
               loc'[p].due_date = loc[p].due_date
          /\ (pc[p] = "b_insert" /\ DOMAIN borrows' # DOMAIN borrows) =>
               \E id \in DOMAIN borrows' \ DOMAIN borrows :
                  /\ DOMAIN borrows' = DOMAIN borrows \cup {id}
                  /\ borrows'[id].due_date = loc[p].due_date
                  /\ last'.op = "BorrowBook"
                  /\ last'.code = OK
                  /\ last'.val.borrow_id = id
                  /\ last'.val.due_date.seconds = loc[p].due_date \div TicksPerSecond
     /\ (last' # last /\ last'.op = "BorrowBook" /\ last'.code = OK) =>
          \E p \in Procs : pc[p] = "b_insert" /\ DOMAIN borrows' # DOMAIN borrows]_vars

\* a borrow made between two whole seconds has succeeded: the response holds
\* the recorded due date without its fraction
C16_BorrowedBetweenSeconds ==
  /\ last.op = "BorrowBook"
  /\ last.code = OK
  /\ last.val.borrow_id \in DOMAIN borrows
  /\ borrows[last.val.borrow_id].due_date % TicksPerSecond # 0
  /\ borrows[last.val.borrow_id].due_date % TicksPerDay # 0
  /\ last.val.due_date.seconds = borrows[last.val.borrow_id].due_date \div TicksPerSecond

\* C17: whenever the store's BorrowBook returns an error (no borrow record
\* comes of the call), "book is not available" included, the facade answers
\* Internal with a message that starts "failed to borrow book" and a nil
\* response; whenever the store's ReturnBook returns an error (the return
\* timestamp is not written) it answers Internal, "failed to return book" and
\* a nil response; ReturnBook reports success = true only when the store
\* returned no error.
C17_StoreErrorsAreInternal ==
  [][(last' # last /\ last'.calls = 1) =>
       /\ (last'.op = "BorrowBook" /\ DOMAIN borrows' = DOMAIN borrows) =>
            /\ last'.code = Internal
            /\ last'.msg[1] = "failed to borrow book"
            /\ Len(last'.msg) > 1
            /\ last'.val = NoVal
       /\ (/\ last'.op = "BorrowBook"
           /\ last'.req.book_id \in DOMAIN books
           /\ ~ books[last'.req.book_id].available
           /\ AllIdle) =>
            /\ last'.code = Internal
            /\ last'.msg \in {<<"failed to borrow book", "book is not available">>,
                              <<"failed to borrow book",
                                "failed to check book availability", ErrDb>>}
            /\ last'.val = NoVal
       /\ (last'.op = "ReturnBook" /\ ~ \E p \in Procs : pc[p] = "r_stamp") =>
            /\ last'.code = Internal
            /\ last'.msg[1] = "failed to return book"
            /\ Len(last'.msg) > 1
            /\ last'.val = NoVal
       /\ (last'.op = "ReturnBook" /\ last'.val # NoVal) =>
            /\ last'.val = [success |-> TRUE]
            /\ last'.code = OK
            /\ \E p \in Procs :
                 /\ pc[p] = "r_stamp"
                 /\ borrows' = StampReturn(borrows, last'.req.borrow_id, now)
                 /\ last'.req.borrow_id \in DOMAIN borrows]_vars

\* a borrow of a book that is out on loan has been refused by the store
C17_BorrowOfLoanedBookFailed ==
  /\ last.op = "BorrowBook"
  /\ last.code = Internal
  /\ last.msg = <<"failed to borrow book", "book is not available">>
  /\ last.val = NoVal
  /\ OpenBorrows(last.req.book_id) # {}

C19_BooksImmutableButAvailability ==
  [][/\ DOMAIN books \subseteq DOMAIN books'
     /\ \A b \in DOMAIN books :
          /\ books'[b].title = books[b].title
          /\ books'[b].author = books[b].author
          /\ books'[b].isbn = books[b].isbn
          /\ (books'[b].available # books[b].available) =>
               \E p \in Procs :
                  /\ pc[p] \in {"b_update", "b_revert", "r_update", "r_revert"}
                  /\ pc'[p] # pc[p]
                  /\ loc[p].op \in {"BorrowBook", "ReturnBook"}
                  /\ loc[p].book_id = b
     /\ (DOMAIN books' # DOMAIN books) =>
          /\ AllIdle /\ AllIdle'
          /\ last'.op = "CreateBook"
          /\ last'.code = OK
          /\ DOMAIN books' = DOMAIN books \cup {last'.val.book.id}
     /\ (/\ last' # last
         /\ last'.op \in {"RegisterUser", "LoginUser", "CreateBook", "GetBook",
                          "ListBooks", "CheckBookAvailability"}) =>
          \A b \in DOMAIN books : books'[b] = books[b]]_vars

\* a second book has been created while the first is out on loan, and the
\* first book's row reads as it did but for its availability
C19_CreatedBesideLoanedBook ==
  /\ last.op = "CreateBook"
  /\ last.code = OK
  /\ last.val.book.id = 2
  /\ 2 \in DOMAIN books
  /\ ~ books[1].available
  /\ OpenBorrows(1) # {}
  /\ books[1].isbn # books[2].isbn

\* C20: borrow records are never deleted and are created only by BorrowBook,
\* so the set of borrow IDs only grows; a record's user reference, book
\* reference and due date never change; only its return timestamp is modified,
\* and only by a successful ReturnBook of that record.
C20_BorrowRecordsOnlyStamped ==
  [][/\ DOMAIN borrows \subseteq DOMAIN borrows'
     /\ \A r \in DOMAIN borrows :
          /\ borrows'[r].user_id = borrows[r].user_id
          /\ borrows'[r].book_id = borrows[r].book_id
          /\ borrows'[r].due_date = borrows[r].due_date
          /\ (borrows'[r].return_date # borrows[r].return_date) =>
               /\ \E p \in Procs :
                    /\ pc[p] = "r_stamp"
                    /\ pc'[p] = "idle"
                    /\ loc[p].op = "ReturnBook"
                    /\ loc[p].borrow_id = r
               /\ borrows'[r].return_date = now
               /\ last'.op = "ReturnBook"
               /\ last'.code = OK
               /\ last'.req.borrow_id = r
     /\ (DOMAIN borrows' # DOMAIN borrows) =>
          /\ \E p \in Procs :
               /\ pc[p] = "b_insert"
               /\ pc'[p] = "idle"
               /\ loc[p].op = "BorrowBook"
          /\ last'.op = "BorrowBook"
          /\ last'.code = OK
          /\ DOMAIN borrows' = DOMAIN borrows \cup {last'.val.borrow_id}
          /\ borrows'[last'.val.borrow_id].return_date = NULL]_vars

\* the first of two borrow records has been returned after time has passed
C20_FirstOfTwoReturned ==
  /\ last.op = "ReturnBook"
  /\ last.code = OK
  /\ last.req.borrow_id = 1
  /\ DOMAIN borrows = {1, 2}
  /\ borrows[1].return_date > 0
  /\ borrows[2].return_date = NULL

\* C21: RegisterUser with an email that already belongs to a stored user
\* fails and leaves the set of stored users unchanged; when the request passes
\* the facade's checks, the failure is reported as Internal with a nil
\* response. Hence no two stored users ever share an email.
C21_DuplicateEmailRefused ==
  [][/\ (/\ last' # last
         /\ last'.op = "RegisterUser"
         /\ \E u \in DOMAIN users : users[u].email = last'.req.email) =>
          /\ users' = users
          /\ last'.code # OK
          /\ last'.val = NoVal
          /\ (~ InvalidRegistration(last'.req)) =>
               /\ last'.code = Internal
               /\ last'.msg[1] = "failed to create user"
               /\ last'.calls = 1
     /\ \A u, v \in DOMAIN users' : users'[u].email = users'[v].email => u = v]_vars

\* a second registration under a stored user's email has been refused by the
\* store's unique constraint
C21_SecondRegistrationRefused ==
  /\ last.op = "RegisterUser"
  /\ last.code = Internal
  /\ last.msg = <<"failed to create user", "failed to create user", ErrUnique>>
  /\ \E u \in DOMAIN users :
       /\ users[u].email = last.req.email
       /\ ~ CompareHashAndPassword(users[u].password_hash, last.req.password)

\* C22: the value stored as a user's password hash is never the plaintext
\* password supplied at registration (it is the bcrypt hash of that password
\* under the salt drawn, and stays as stored); no response of RegisterUser,
\* LoginUser or the user store's GetByID holds the password or its hash: the
\* user returned has an id, a name and an email and nothing else, and a
\* failure returns no user.
C22_PasswordNeverStoredNorReturned ==
  [][/\ \A u \in DOMAIN users' \ DOMAIN users :
          /\ last'.op = "RegisterUser"
          /\ last'.code = OK
          /\ users'[u].password_hash.digest # last'.req.password
          /\ users'[u].password_hash =
               BcryptHash(last'.req.password, users'[u].password_hash.salt)
     /\ \A u \in DOMAIN users : users'[u].password_hash = users[u].password_hash
     /\ (last' # last /\ last'.op \in {"RegisterUser", "LoginUser",
                                       "UserRepository.GetByID"}) =>
          /\ (last'.code = OK) =>
               /\ DOMAIN last'.val =
                    (IF last'.op = "LoginUser" THEN {"user", "token"} ELSE {"user"})
               /\ DOMAIN last'.val.user = {"id", "name", "email"}
               /\ last'.val.user.id \in DOMAIN users'
               /\ last'.val.user.name = users'[last'.val.user.id].name
               /\ last'.val.user.email = users'[last'.val.user.id].email
               /\ (last'.op = "LoginUser") => last'.val.token = "sample-jwt-token"
          /\ (last'.code # OK) =>
               /\ last'.val = NoVal
               /\ \A i \in DOMAIN last'.msg :
                    /\ \A u \in DOMAIN users' :
                         users'[u].password_hash.digest # last'.msg[i]
                    /\ (last'.op # "UserRepository.GetByID") =>
                         last'.msg[i] # last'.req.password]_vars

\* a registered user has been read back from the user store by ID
C22_UserReadBack ==
  /\ last.op = "UserRepository.GetByID"
  /\ last.code = OK
  /\ last.val.user.id \in DOMAIN users
  /\ users[last.val.user.id].password_hash.digest =
       <<users[last.val.user.id].password_hash.salt, "password123">>

\* C23: when the borrow-record insert of BorrowBook fails, no borrow record is
\* created and BorrowBook issues a compensating update of the book's
\* availability to true; whether that update takes effect or fails, the call
\* returns the insert error ("failed to create borrow record") as the fourth
\* statement ends, and never an error of the compensating update.
C23_InsertFailureReverted ==
  [][\A p \in Procs :
       /\ (pc[p] = "b_insert" /\ pc'[p] # "b_insert" /\ DOMAIN borrows' = DOMAIN borrows) =>
            /\ pc'[p] = "b_revert"
            /\ borrows' = borrows
            /\ books' = books
            /\ last' = last
            /\ loc'[p].err \in {<<"failed to create borrow record", ErrDb>>,
                                <<"failed to create borrow record", ErrForeignKey>>}
            /\ loc'[p].book_id = loc[p].book_id
       /\ (pc[p] = "b_revert" /\ pc'[p] # "b_revert") =>
            /\ pc'[p] = "idle"
            /\ borrows' = borrows
            /\ loc[p].book_id \in DOMAIN books
            /\ ~ books[loc[p].book_id].available
            /\ books' \in {books, [books EXCEPT ![loc[p].book_id].available = TRUE]}
            /\ last' = [op |-> "BorrowBook",
                        req |-> [user_id |-> loc[p].user_id, book_id |-> loc[p].book_id],
                        code |-> Internal,
                        msg |-> <<"failed to borrow book">> \o loc[p].err,
                        val |-> NoVal, calls |-> 1, stmts |-> 4,
                        http |-> StatusInternalServerError]
            /\ last'.msg[2] = "failed to create borrow record"]_vars

\* a borrow has failed at its insert and its compensating update has failed
\* too: the insert error is returned and the book is left unavailable with no
\* open borrow record
C23_RevertFailedUnreported ==
  /\ AllIdle
  /\ last.op = "BorrowBook"
  /\ last.code = Internal
  /\ last.msg[2] = "failed to create borrow record"
  /\ last.stmts = 4
  /\ last.req.book_id \in DOMAIN books
  /\ ~ books[last.req.book_id].available
  /\ OpenBorrows(last.req.book_id) = {}

\* the handlers stopped in a BorrowBook after its update of the book's
\* availability and before its insert of the borrow record
StoppedBeforeInsert ==
  {p \in Procs : pc[p] = "crashed" /\ loc[p].op = "BorrowBook" /\ loc[p].stmts = 2}

\* C24: if a BorrowBook stops (crash) after it has set the book's availability
\* to false and before it inserts the borrow record, the book's availability
\* flag is false in every later state, whatever operations follow.
C24_StoppedBorrowKeepsBookUnavailable ==
  \A p \in StoppedBeforeInsert : ~ books[loc[p].book_id].available

\* C25: when ReturnBook has set the book's availability to true and the
\* update of the borrow record's return timestamp then fails, ReturnBook
\* issues a compensating update of the book's availability to false, leaves
\* the record's return timestamp as it was, and returns the timestamp-update
\* error ("failed to update borrow record") whether the compensating update
\* takes effect or fails.
C25_StampFailureReverted ==
  [][\A p \in Procs :
       /\ (pc[p] = "r_stamp" /\ pc'[p] # "r_stamp") =>
            \/ /\ pc'[p] = "idle"
               /\ last'.op = "ReturnBook"
               /\ last'.code = OK
            \/ /\ pc'[p] = "r_revert"
               /\ borrows' = borrows
               /\ books' = books
               /\ books[loc[p].book_id].available
               /\ last' = last
               /\ loc'[p].err = <<"failed to update borrow record", ErrDb>>
               /\ loc'[p].book_id = loc[p].book_id
               /\ loc'[p].borrow_id = loc[p].borrow_id
       /\ (pc[p] = "r_revert" /\ pc'[p] # "r_revert") =>
            /\ pc'[p] = "idle"
            /\ borrows' = borrows
            /\ loc[p].book_id \in DOMAIN books
            /\ books' \in {books, [books EXCEPT ![loc[p].book_id].available = FALSE]}
            /\ last' = [op |-> "ReturnBook",
                        req |-> [borrow_id |-> loc[p].borrow_id],
                        code |-> Internal,
                        msg |-> <<"failed to return book",
                                  "failed to update borrow record", ErrDb>>,
                        val |-> NoVal, calls |-> 1, stmts |-> 4,
                        http |-> StatusInternalServerError]]_vars

\* a return has failed at its timestamp update and its compensating update
\* has failed too: the timestamp-update error is returned, the record is still
\* open and the book is left available
C25_RevertFailedUnreported ==
  /\ AllIdle
  /\ last.op = "ReturnBook"
  /\ last.code = Internal
  /\ last.msg[2] = "failed to update borrow record"
  /\ last.stmts = 4
  /\ last.req.borrow_id \in DOMAIN borrows
  /\ borrows[last.req.borrow_id].return_date = NULL
  /\ books[borrows[last.req.borrow_id].book_id].available

\* C26: no operation retries a failed store statement: every step of a
\* BorrowBook or ReturnBook issues one statement and moves on, each of the two
\* ends (with a result or an error) after at most four statements and every
\* other operation after at most one; so under any pattern of store failures
\* each started operation terminates.
C26_NoRetryAndTermination ==
  /\ [](/\ last.stmts <= (IF last.op \in {"BorrowBook", "ReturnBook"} THEN 4 ELSE 1)
        /\ \A p \in Procs :
             /\ loc[p].stmts <= 3
             /\ (pc[p] # "idle") => loc[p].op \in {"BorrowBook", "ReturnBook"})
  /\ [][\A p \in Procs :
          (pc[p] # "idle" /\ <<pc[p], loc[p]>> # <<pc'[p], loc'[p]>>) =>
             /\ pc'[p] # pc[p]
             /\ \/ pc'[p] = "idle" /\ last'.stmts = loc[p].stmts + 1
                \/ pc'[p] # "idle" /\ loc'[p].stmts = loc[p].stmts + 1]_vars
  /\ \A p \in Procs : (pc[p] # "idle") ~> (pc[p] = "idle")

\* a BorrowBook has ended after four statements, the third of which failed
C26_EndedAfterFourStatements ==
  /\ AllIdle
  /\ last.op = "BorrowBook"
  /\ last.stmts = 4
  /\ last.msg = <<"failed to borrow book", "failed to create borrow record", ErrDb>>
  /\ books[last.req.book_id].available

\* C27: BorrowBook for an available book with a user ID that is not a stored
\* user passes the availability check, sets the book's availability to false
\* and fails at the borrow-record insert; the availability is then reverted
\* to true (unless the compensating update itself fails), the call returns an
\* error and no borrow record is created. Consequently every stored borrow
\* record references a stored user and a stored book.
C27_UnknownBorrowerFailsAtInsert ==
  [][/\ \A p \in Procs :
          (loc[p].op = "BorrowBook" /\ loc[p].user_id \notin DOMAIN users) =>
             /\ borrows' = borrows
             /\ (pc[p] = "b_update" /\ pc'[p] = "b_insert") =>
                  ~ books'[loc[p].book_id].available
             /\ (pc[p] = "b_insert" /\ pc'[p] # "b_insert") =>
                  /\ pc'[p] = "b_revert"
                  /\ ~ books[loc[p].book_id].available
                  /\ loc'[p].err \in {<<"failed to create borrow record", ErrForeignKey>>,
                                      <<"failed to create borrow record", ErrDb>>}
             /\ (pc[p] = "b_revert" /\ pc'[p] # "b_revert") =>
                  /\ pc'[p] = "idle"
                  /\ books' \in {books, [books EXCEPT ![loc[p].book_id].available = TRUE]}
                  /\ last'.op = "BorrowBook"
                  /\ last'.req.user_id = loc[p].user_id
                  /\ last'.code = Internal
                  /\ last'.val = NoVal
                  /\ last'.msg = <<"failed to borrow book">> \o loc[p].err
     /\ (/\ last' # last
         /\ last'.op = "BorrowBook"
         /\ last'.calls = 1
         /\ last'.req.user_id \notin DOMAIN users) =>
          /\ last'.code = Internal
          /\ borrows' = borrows
     /\ \A r \in DOMAIN borrows' :
          /\ borrows'[r].user_id \in DOMAIN users'
          /\ borrows'[r].book_id \in DOMAIN books']_vars

\* a borrow by a user ID that is not stored has been refused at the insert and
\* the book is available again
C27_UnknownBorrowerRefused ==
  /\ AllIdle
  /\ last.op = "BorrowBook"
  /\ last.req.user_id \notin DOMAIN users
  /\ last.msg = <<"failed to borrow book", "failed to create borrow record", ErrForeignKey>>
  /\ last.stmts = 4
  /\ books[last.req.book_id].available
  /\ \A r \in DOMAIN borrows : borrows[r].user_id # last.req.user_id

====
